---------------------------- MODULE Spec2Model ----------------------------
(***************************************************************************)
(* A model of cargo-bisect-rustc (src/src/main.rs): the outcome            *)
(* classifier, the Nightly-Finder iterator, the install/test/remove probe  *)
(* and the two-phase bisection orchestrator.                               *)
(*                                                                         *)
(* Dates are day numbers (days since 1970-01-01).  Commit hashes are       *)
(* positions on the linear history of the rust repository.                 *)
(***************************************************************************)
EXTENDS Integers, Sequences, FiniteSets, TLC

VARIABLES
    \* ---- outcome classifier (Config::default_outcome_of_output)
    probe_output,   \* the process::Output handed to the classifier, with the mode
    test_outcome,   \* the TestOutcome it returned ("none" before the call)
    \* ---- the reproduce command of print_final_report
    argv,           \* env::args_os(): the program name, then the arguments
    command,        \* the command printed, in pieces (<<>> before it is printed)
    \* ---- NightlyFinderIter
    nightly_iter,   \* [start_date, current_date]
    emitted,        \* the dates returned by next() so far
    \* ---- one run of the program
    pc,             \* position in run() / bisect()
    error,          \* the error the run failed with ("none" while it has not)
    exit_code,      \* the process's exit code (-1 while running)
    args,           \* Opts: start, end, by_commit, preserve, alt, install, target
    is_commit,      \* Config.is_commit
    default_nightly,\* Toolchain::default_nightly(): the installed nightly, if any
    nightly_date,   \* bisect_nightlies: the nightly the walk probes next
    last_failure,   \* bisect_nightlies: the newest nightly known to regress
    first_success,  \* bisect_nightlies: Option<date>
    toolchains,     \* the sequence handed to the least-satisfying search
    dl_spec,        \* DownloadParams in use: "nightly" or "ci"
    lo, hi, tried,  \* least_satisfying: window [lo, hi) and neighbours tried
    nightly_result, \* Option<BisectionResult> of bisect_nightlies
    ci_result,      \* Option<BisectionResult> of bisect_ci_in_commits
    ci_start,       \* start_sha given to bisect_ci_via
    ci_end,         \* end_ref given to bisect_ci_via
    commits,        \* what the accessor returned to bisect_ci_via, oldest first
    world,          \* what is known of the artifact server: spec -> outcome
    log,            \* install / test / remove calls on toolchains, in order
    report          \* what was printed, in order

clVars == <<probe_output, test_outcome>>
argVars == <<argv, command>>
nfVars == <<nightly_iter, emitted>>
ctlVars == <<pc, error, exit_code>>
cfgVars == <<args, is_commit, default_nightly>>
walkVars == <<nightly_date, last_failure, first_success>>
searchVars == <<toolchains, dl_spec, lo, hi, tried>>
resVars == <<nightly_result, ci_result, ci_start, ci_end, commits>>
ioVars == <<world, log, report>>
runVars == <<ctlVars, cfgVars, walkVars, searchVars, resVars, ioVars>>
vars == <<clVars, argVars, nfVars, runVars>>

None == [kind |-> "none"]

----------------------------------------------------------------------------
(* Outcome classifier                                                      *)

\* Longest captured stderr, in chunks.
MaxStderr == 4

OutputProcessingMode ==
    {"RegressOnErrorStatus", "RegressOnSuccessStatus", "RegressOnIceAlone",
     "RegressOnNotIce", "RegressOnNonCleanError"}

\* stderr is a sequence of chunks; the chunks are chosen so that the literal
\* "error: internal compiler error" occurs in the concatenation exactly when
\* its three chunks occur consecutively.
StderrChunks == {"error", ": internal compiler ", "warning: unused\n"}

IceMarker == <<"error", ": internal compiler ", "error">>

\* str::contains
contains(s, pat) ==
    \E i \in 1..(Len(s) - Len(pat) + 1) : SubSeq(s, i, i + Len(pat) - 1) = pat

saw_ice(stderr_utf8) == contains(stderr_utf8, IceMarker)

default_outcome_of_output_ignoring_status(mode, output) ==
    CASE mode = "RegressOnErrorStatus" ->
            IF output.success THEN "Baseline" ELSE "Regressed"
      [] mode = "RegressOnSuccessStatus" ->
            IF output.success THEN "Regressed" ELSE "Baseline"
      [] mode = "RegressOnIceAlone" ->
            IF saw_ice(output.stderr) THEN "Regressed" ELSE "Baseline"
      [] mode = "RegressOnNotIce" ->
            IF saw_ice(output.stderr) THEN "Baseline" ELSE "Regressed"
      [] mode = "RegressOnNonCleanError" ->
            IF saw_ice(output.stderr) THEN "Regressed" ELSE "Baseline"

default_outcome_of_output(mode, output) ==
    CASE mode = "RegressOnErrorStatus" /\ output.success -> "Baseline"
      [] mode = "RegressOnErrorStatus" /\ ~output.success -> "Regressed"
      [] mode = "RegressOnSuccessStatus" /\ output.success -> "Regressed"
      [] mode = "RegressOnSuccessStatus" /\ ~output.success -> "Baseline"
      [] mode = "RegressOnIceAlone" ->
            IF saw_ice(output.stderr) THEN "Regressed" ELSE "Baseline"
      [] mode = "RegressOnNotIce" ->
            IF saw_ice(output.stderr) THEN "Baseline" ELSE "Regressed"
      [] mode = "RegressOnNonCleanError" /\ output.success -> "Regressed"
      [] mode = "RegressOnNonCleanError" /\ ~output.success ->
            IF saw_ice(output.stderr) THEN "Regressed" ELSE "Baseline"

\* Only the two modes that read stderr for either status are listed.
must_process_stderr_ice_modes(mode) ==
    mode \in {"RegressOnIceAlone", "RegressOnNotIce"}

must_process_stderr(mode) ==
    CASE mode \in {"RegressOnErrorStatus", "RegressOnSuccessStatus"} -> FALSE
      [] mode \in {"RegressOnNonCleanError", "RegressOnIceAlone",
                   "RegressOnNotIce"} -> TRUE

SeqsUpTo(S, n) == UNION {[1..k -> S] : k \in 0..n}

NoOutput == [mode |-> "none", success |-> TRUE, stderr |-> <<>>]

ClassifierIdle ==
    /\ probe_output = NoOutput
    /\ test_outcome = "none"

\* A finished test process is classified.
Classify ==
    /\ probe_output.mode \in OutputProcessingMode
    /\ test_outcome = "none"
    /\ test_outcome' = default_outcome_of_output(probe_output.mode, probe_output)
    /\ UNCHANGED <<probe_output, argVars, nfVars, runVars>>

----------------------------------------------------------------------------
(* The reproduce command (print_final_report) and the arguments run() reads *)

\* Longest command line, the program name not counted.
MaxArgs == 3

ProgramNames == {"cargo-bisect-rustc"}
ArgTokens == {"bisect-rustc", "--preserve", "--", "build"}

\* run(): env::args_os().filter(|a| a != "bisect-rustc")
run_args(av) == SelectSeq(av, LAMBDA a : a # "bisect-rustc")

\* print_final_report: "cargo bisect-rustc " and then every argument whose
\* index in env::args_os() is greater than 1, each followed by a space.
reproduce_command(av) ==
    <<"cargo bisect-rustc ">> \o [i \in 1..(IF Len(av) > 2 THEN Len(av) - 2 ELSE 0) |->
                                    av[i + 2]]

ArgsIdle == argv = <<>> /\ command = <<>>

\* The lines "Reproduce with:" of print_final_report.
PrintReproduce ==
    /\ argv # <<>>
    /\ command = <<>>
    /\ command' = reproduce_command(argv)
    /\ UNCHANGED <<argv, clVars, nfVars, runVars>>

----------------------------------------------------------------------------
(* Nightly-Finder iterator                                                 *)

\* 2015-10-20: before this date there were no -std packages.
end_at == 16728

\* Number of next() calls followed in the iterator's own specification.
MaxCalls == 14
\* The anchors tried are end_at + 1 .. end_at + MaxAnchor.
MaxAnchor == 8

NightlyFinderIter_new(start_date) ==
    [start_date |-> start_date, current_date |-> start_date]

\* The iterator stayed where it was.
jump_length_still(it) == 0

jump_length_six_weeks(it) ==
    LET current_distance == it.start_date - it.current_date
    IN  IF current_distance < 7 THEN 2
        ELSE IF current_distance < 42 THEN 7
        ELSE 14

jump_length(it) ==
    LET current_distance == it.start_date - it.current_date
    IN  IF current_distance < 7 THEN 2
        ELSE IF current_distance < 49 THEN 7
        ELSE 14

\* The state of the iterator after next(); the date returned is its
\* current_date (next never returns None).
NightlyFinderIter_next(it) ==
    [it EXCEPT !.current_date = it.current_date - jump_length(it)]

FinderIdle ==
    /\ nightly_iter = NightlyFinderIter_new(0)
    /\ emitted = <<>>

IterNext ==
    /\ Len(emitted) < MaxCalls
    /\ nightly_iter' = NightlyFinderIter_next(nightly_iter)
    /\ emitted' = Append(emitted, nightly_iter'.current_date)
    /\ UNCHANGED <<clVars, argVars, runVars>>

----------------------------------------------------------------------------
(* Data of a run                                                           *)

\* The nightly bounds tried are end_at - 1 .. end_at + MaxSpan.
MaxSpan == 3
\* The commits given as bounds are EPOCH_COMMIT .. EPOCH_COMMIT + MaxHistory - 1.
MaxHistory == 3
\* Install errors in one run: toolchains the server lacks, plus installs
\* that fail otherwise.
MaxInstallErrors == 2

\* The commit 927c55d8..., as a position on the history.
EPOCH_COMMIT == 1
\* CI artifacts are kept this many days.
RetentionDays == 167

Some(v) == [kind |-> "some", val |-> v]
DateBound(d) == [kind |-> "date", date |-> d]
CommitBound(c) == [kind |-> "commit", sha |-> c]
\* A ref handed to the accessor: a sha, or the branch origin/master.
ShaRef(c) == [kind |-> "sha", sha |-> c]
OriginMaster == [kind |-> "branch"]

BoundDates == (end_at - 1)..(end_at + MaxSpan)
BoundCommits == EPOCH_COMMIT..(EPOCH_COMMIT + MaxHistory - 1)
Bounds == {None} \cup {DateBound(d) : d \in BoundDates}
                 \cup {CommitBound(c) : c \in BoundCommits}

\* Target triples in ascending (byte-wise) order.
Triples == <<"aarch64-apple-darwin", "x86_64-unknown-linux-gnu">>
Host == "x86_64-unknown-linux-gnu"
TripleRank(t) == CHOOSE i \in 1..Len(Triples) : Triples[i] = t

\* Config.target: --target, or the host when it is absent.
cfg_target == IF args.target.kind = "some" THEN args.target.val ELSE Host

RECURSIVE insert(_, _)
insert(x, s) ==
    IF s = <<>> THEN <<x>>
    ELSE IF TripleRank(x) <= TripleRank(Head(s)) THEN <<x>> \o s
    ELSE <<Head(s)>> \o insert(x, Tail(s))

\* Vec::sort
RECURSIVE sort(_)
sort(s) == IF s = <<>> THEN <<>> ELSE insert(Head(s), sort(Tail(s)))

\* Vec::dedup: consecutive equal elements are merged.
RECURSIVE dedup(_)
dedup(s) ==
    IF Len(s) < 2 THEN s
    ELSE IF s[1] = s[2] THEN dedup(Tail(s))
    ELSE <<s[1]>> \o dedup(Tail(s))

Nightly(d) == [kind |-> "Nightly", date |-> d]
Ci(c, a) == [kind |-> "Ci", commit |-> c, alt |-> a]

\* The list as it is first built, neither sorted nor deduplicated.
Toolchain_as_built(spec) ==
    [spec |-> spec, host |-> Host, std_targets |-> <<Host, cfg_target>>]

\* Toolchain { spec, host, std_targets: vec![host, target] }, sorted and
\* deduplicated as every construction site does.
Toolchain(spec) ==
    [spec |-> spec, host |-> Host,
     std_targets |-> dedup(sort(<<Host, cfg_target>>))]

\* chrono::Utc::now().date()
Today == end_at + MaxSpan + 1

\* Bound::sha of a date: the commit the nightly of that date was built from.
\* One commit is merged per day, the epoch commit on the day of end_at.
ShaOfDate(d) == EPOCH_COMMIT + (d - end_at)

\* The head of origin/master.
HeadSha == ShaOfDate(Today)

\* RustRepositoryAccessor::commit
resolve(ref) == IF ref.kind = "branch" THEN HeadSha ELSE ref.sha

\* RustRepositoryAccessor::commits: the inclusive history start..end, oldest
\* first; the `stale` oldest commits are RetentionDays old, the others one
\* day younger.
AccessorCommits(start, end, stale) ==
    [i \in 1..(end - start + 1) |->
        [sha |-> start + i - 1,
         age |-> IF i <= stale THEN RetentionDays ELSE RetentionDays - 1]]

----------------------------------------------------------------------------
(* Toolchain lifecycle: what the artifact server and the test answer       *)

\* A toolchain is either missing on the server ("NotFound") or, once
\* installed, its test is "Baseline" or "Regressed"; these are fixed per
\* toolchain (world).  Any single install may also fail otherwise ("Failed").
Missing == {k \in DOMAIN world : world[k] = "NotFound"}
Failures == {i \in 1..Len(log) : log[i].op = "install" /\ log[i].res = "Failed"}

MoreErrors == Cardinality(Missing) + Cardinality(Failures) < MaxInstallErrors

Answers(spec) ==
    (IF spec \in DOMAIN world THEN {world[spec]}
     ELSE {"Baseline", "Regressed"} \cup (IF MoreErrors THEN {"NotFound"} ELSE {}))
    \cup (IF MoreErrors THEN {"Failed"} ELSE {})

Learn(spec, w) == IF w = "Failed" THEN world ELSE (spec :> w) @@ world

InstallEv(t, res) == [op |-> "install", tc |-> t, res |-> res]
TestEv(t, res) == [op |-> "test", tc |-> t, res |-> res]
RemoveEv(t) == [op |-> "remove", tc |-> t, res |-> "ok"]

Ok(r) == [ok |-> TRUE, val |-> r]
Err(e) == [ok |-> FALSE, val |-> e]

\* install_and_test against a toolchain whose answer is w: the value
\* returned and the lifecycle calls made.
install_and_test_inverted(t, w) ==
    IF w \in {"Baseline", "Regressed"}
    THEN [ret |-> Ok(IF w = "Baseline" THEN "Yes" ELSE "No"),
          calls |-> <<InstallEv(t, "ok"), TestEv(t, w)>>
                    \o (IF ~args.preserve THEN <<RemoveEv(t)>> ELSE <<>>)]
    ELSE [ret |-> Err(w),
          calls |-> <<InstallEv(t, w)>>
                    \o (IF ~args.preserve THEN <<RemoveEv(t)>> ELSE <<>>)]

\* The toolchain was left in place when its install failed.
install_and_test_keeping(t, w) ==
    IF w \in {"Baseline", "Regressed"}
    THEN [ret |-> Ok(IF w = "Baseline" THEN "No" ELSE "Yes"),
          calls |-> <<InstallEv(t, "ok"), TestEv(t, w)>>
                    \o (IF ~args.preserve THEN <<RemoveEv(t)>> ELSE <<>>)]
    ELSE [ret |-> Err(w), calls |-> <<InstallEv(t, w)>>]

install_and_test(t, w) ==
    IF w \in {"Baseline", "Regressed"}
    THEN [ret |-> Ok(IF w = "Baseline" THEN "No" ELSE "Yes"),
          calls |-> <<InstallEv(t, "ok"), TestEv(t, w)>>
                    \o (IF ~args.preserve THEN <<RemoveEv(t)>> ELSE <<>>)]
    ELSE [ret |-> Err(w),
          calls |-> <<InstallEv(t, w)>>
                    \o (IF ~args.preserve THEN <<RemoveEv(t)>> ELSE <<>>)]

----------------------------------------------------------------------------
(* run(), Config::from_args, install()                                     *)

Fail(e) == pc' = "exit" /\ error' = e /\ exit_code' = 1
Panic(e) == pc' = "exit" /\ error' = e /\ exit_code' = 101
Goto(l) == pc' = l /\ UNCHANGED <<error, exit_code>>

\* No order was required of two dates.
check_bounds_lenient(start, end) == TRUE

check_bounds(start, end) ==
    ~(start.kind = "date" /\ end.kind = "date" /\ end.date < start.date)

CheckBounds ==
    /\ pc = "check_bounds"
    /\ IF check_bounds(args.start, args.end) THEN Goto("from_args")
       ELSE Fail("BoundOrder")
    /\ UNCHANGED <<clVars, argVars, nfVars, cfgVars, walkVars, searchVars, resVars, ioVars>>

bounds_kind_both(start, end) ==
    CASE start.kind = "commit" /\ end.kind = "commit" -> "commits"
      [] start.kind \in {"date", "none", "commit"} /\ end.kind \in {"date", "none", "commit"}
         /\ <<start.kind, end.kind>> \notin {<<"none", "none">>, <<"commit", "date">>,
                                             <<"date", "commit">>, <<"commit", "commit">>}
            -> "dates"
      [] start.kind = "none" /\ end.kind = "none" -> "none"
      [] OTHER -> "mismatch"

\* The match on (start, end) of from_args: Some(true), Some(false), None,
\* or the bail on bounds of different kinds.
bounds_kind(start, end) ==
    CASE start.kind \in {"commit", "none"} /\ end.kind \in {"commit", "none"}
         /\ <<start.kind, end.kind>> # <<"none", "none">> -> "commits"
      [] start.kind \in {"date", "none"} /\ end.kind \in {"date", "none"}
         /\ <<start.kind, end.kind>> # <<"none", "none">> -> "dates"
      [] start.kind = "none" /\ end.kind = "none" -> "none"
      [] OTHER -> "mismatch"

\* The host, the rustup directories and --access are taken to be valid.
\* Bound::as_commit fetches the nightly's manifest and may fail.
FromArgs ==
    /\ pc = "from_args"
    /\ LET k == bounds_kind(args.start, args.end)
       IN  IF k = "mismatch"
           THEN Fail("BoundMismatch") /\ UNCHANGED <<args, is_commit>>
           ELSE IF k = "dates" /\ args.by_commit
           THEN IF args.start.kind = "date" /\ args.end.kind = "date"
                THEN \E fetched \in BOOLEAN :
                       IF fetched
                       THEN /\ args' = [args EXCEPT
                                 !.start = CommitBound(ShaOfDate(args.start.date)),
                                 !.end = CommitBound(ShaOfDate(args.end.date))]
                            /\ is_commit' = TRUE
                            /\ Goto("run")
                       ELSE Fail("Network") /\ UNCHANGED <<args, is_commit>>
                ELSE Panic("unreachable") /\ UNCHANGED <<args, is_commit>>
           ELSE /\ is_commit' = (args.by_commit \/ k = "commits")
                /\ Goto("run")
                /\ UNCHANGED args
    /\ UNCHANGED <<clVars, argVars, nfVars, default_nightly, walkVars, searchVars, resVars, ioVars>>

\* --install was honoured only when no bound was given.
install_mode_without_bounds ==
    args.install.kind # "none" /\ args.start = None /\ args.end = None

\* `if let Some(ref bound) = cfg.args.install`
install_mode == args.install.kind # "none"

\* run() after the Config is built, and the branch of bisect().
Run ==
    /\ pc = "run"
    /\ IF install_mode THEN Goto("install")
       ELSE IF is_commit THEN Goto("bisect_ci")
       ELSE Goto("bisect_nightlies")
    /\ UNCHANGED <<clVars, argVars, nfVars, cfgVars, walkVars, searchVars, resVars, ioVars>>

\* install(): one toolchain is installed; no test, no remove.
Install ==
    /\ pc = "install"
    /\ LET bound == args.install
       IN  \E resolved \in BOOLEAN :
             IF bound.kind = "commit" /\ ~resolved
             THEN Fail("AccessorError") /\ UNCHANGED ioVars
             ELSE LET t == IF bound.kind = "commit"
                           THEN Toolchain(Ci(resolve(ShaRef(bound.sha)), args.alt))
                           ELSE Toolchain(Nightly(bound.date))
                  IN  \E w \in Answers(t.spec) :
                        /\ world' = Learn(t.spec, w)
                        /\ log' = Append(log, InstallEv(t,
                                     IF w \in {"Baseline", "Regressed"} THEN "ok" ELSE w))
                        /\ UNCHANGED report
                        /\ IF w \in {"Baseline", "Regressed"}
                           THEN pc' = "exit" /\ exit_code' = 0 /\ UNCHANGED error
                           ELSE Fail("InstallError")
    /\ UNCHANGED <<clVars, argVars, nfVars, cfgVars, walkVars, searchVars, resVars>>

----------------------------------------------------------------------------
(* Least-satisfying search (least_satisfying.rs), driven by                *)
(* bisect_to_regression                                                    *)

\* The indices of the window [l, h) in the order they are probed: the
\* midpoint, then its neighbours outward, alternating +1, -1, +2, -2, ...
Outward(l, h) ==
    LET mid == (l + h) \div 2
        raw == [i \in 1..(2 * (h - l) + 1) |->
                  IF i = 1 THEN mid
                  ELSE IF i % 2 = 0 THEN mid + (i \div 2) ELSE mid - (i \div 2)]
    IN  SelectSeq(raw, LAMBDA x : l <= x /\ x < h)

\* The search starts from the window [0, N-1): the last element is presumed
\* to satisfy, which the callers validate.  There is no answer for an empty
\* sequence.
SearchStart ==
    IF toolchains' = <<>>
    THEN Panic("EmptySequence") /\ UNCHANGED <<lo, hi, tried>>
    ELSE /\ lo' = 0
         /\ hi' = Len(toolchains') - 1
         /\ tried' = 0
         /\ Goto("search")

\* One answer of the probe narrows the window: Yes at j makes j the upper
\* end, No at j moves the lower end past j, Unknown moves to the next
\* neighbour.
Narrow(j, r) ==
    CASE r = "Yes" -> hi' = j /\ tried' = 0 /\ UNCHANGED lo
      [] r = "No" -> lo' = j + 1 /\ tried' = 0 /\ UNCHANGED hi
      [] r = "Unknown" -> tried' = tried + 1 /\ UNCHANGED <<lo, hi>>

\* The closure bisect_to_regression hands to least_satisfying.
bisect_to_regression_baseline(ret) == IF ret.ok THEN ret.val ELSE "No"

bisect_to_regression_regressed(ret) == IF ret.ok THEN ret.val ELSE "Yes"

bisect_to_regression(ret) == IF ret.ok THEN ret.val ELSE "Unknown"

SearchDone == lo >= hi \/ tried >= hi - lo

SearchProbe ==
    /\ pc = "search"
    /\ ~SearchDone
    /\ LET j == Outward(lo, hi)[tried + 1]
           t == toolchains[j + 1]
       IN  \E w \in Answers(t.spec) :
             LET p == install_and_test(t, w)
             IN  /\ world' = Learn(t.spec, w)
                 /\ log' = log \o p.calls
                 /\ Narrow(j, bisect_to_regression(p.ret))
    /\ UNCHANGED <<clVars, argVars, nfVars, ctlVars, cfgVars, walkVars, toolchains, dl_spec,
                   resVars, report>>

BisectionResult(found) ==
    Some([searched |-> toolchains, found |-> found, dl_spec |-> dl_spec])

\* least_satisfying returns the upper end of the window; the caller wraps it
\* in a BisectionResult.
SearchReturn ==
    /\ pc = "search"
    /\ SearchDone
    /\ IF dl_spec = "nightly"
       THEN nightly_result' = BisectionResult(hi) /\ UNCHANGED ci_result
       ELSE ci_result' = BisectionResult(hi) /\ UNCHANGED nightly_result
    /\ Goto("print_results")
    /\ UNCHANGED <<clVars, argVars, nfVars, cfgVars, walkVars, searchVars, ci_start, ci_end,
                   commits, ioVars>>

----------------------------------------------------------------------------
(* bisect_nightlies                                                        *)

get_end_date ==
    IF args.end.kind = "date" THEN args.end.date
    ELSE IF default_nightly.kind = "some" THEN default_nightly.val
    ELSE Today

get_start_date ==
    IF args.start.kind = "date" THEN args.start.date ELSE get_end_date

has_start_from_end == args.end.kind # "none"

has_start == args.start.kind # "none"

\* The walk went on only above the second day after the floor.
walk_continues_late(date) == date > end_at + 2

\* The condition of the walk's loop: `nightly_date > end_at`.
walk_continues(date) == date > end_at

\* The check on the probe of the end of the range: `r == Satisfies::No`.
end_does_not_reproduce_inverted(r) == r = "Yes"

end_does_not_reproduce(r) == r = "No"

BisectNightlies ==
    /\ pc = "bisect_nightlies"
    /\ IF args.alt
       THEN /\ Fail("AltNotSupported")
            /\ UNCHANGED <<walkVars, nfVars, dl_spec>>
       ELSE /\ dl_spec' = "nightly"
            /\ first_success' = None
            /\ nightly_date' = get_start_date
            /\ last_failure' = get_end_date
            /\ nightly_iter' = NightlyFinderIter_new(get_start_date)
            /\ emitted' = <<>>
            /\ Goto("walk")
    /\ UNCHANGED <<clVars, argVars, cfgVars, toolchains, lo, hi, tried, resVars, ioVars>>

\* One iteration of the loop that walks backwards from the start date.
WalkProbe ==
    /\ pc = "walk"
    /\ walk_continues(nightly_date)
    /\ LET t == Toolchain(Nightly(nightly_date))
       IN  \E w \in Answers(t.spec) :
             LET p == install_and_test(t, w)
             IN  /\ world' = Learn(t.spec, w)
                 /\ log' = log \o p.calls
                 /\ IF p.ret.ok
                    THEN IF p.ret.val = "No"
                         THEN /\ first_success' = Some(nightly_date)
                              /\ Goto("reconfirm")
                              /\ UNCHANGED <<nightly_date, last_failure, nfVars>>
                         ELSE IF has_start
                         THEN /\ Fail("EndpointBaseline")
                              /\ UNCHANGED <<walkVars, nfVars>>
                         ELSE /\ last_failure' = nightly_date
                              /\ nightly_iter' = NightlyFinderIter_next(nightly_iter)
                              /\ nightly_date' = nightly_iter'.current_date
                              /\ emitted' = Append(emitted, nightly_iter'.current_date)
                              /\ Goto("walk")
                              /\ UNCHANGED first_success
                    ELSE IF p.ret.val = "NotFound"
                         THEN /\ nightly_date' = nightly_date - 1
                              /\ IF has_start THEN Fail("NoSuchArtifact") ELSE Goto("walk")
                              /\ UNCHANGED <<last_failure, first_success, nfVars>>
                         ELSE /\ Fail("InstallError")
                              /\ UNCHANGED <<walkVars, nfVars>>
    /\ UNCHANGED <<clVars, argVars, cfgVars, searchVars, resVars, report>>

\* The loop ends at the floor.
WalkEnd ==
    /\ pc = "walk"
    /\ ~walk_continues(nightly_date)
    /\ Goto("reconfirm")
    /\ UNCHANGED <<clVars, argVars, nfVars, cfgVars, walkVars, searchVars, resVars, ioVars>>

RECURSIVE dates_between(_, _)
dates_between(a, b) == IF a <= b THEN <<a>> \o dates_between(a + 1, b) ELSE <<>>

toolchains_between_exclusive(a, b) ==
    LET ds == dates_between(a, b - 1)
    IN  [i \in 1..Len(ds) |-> Toolchain(Nightly(ds[i]))]

toolchains_between(a, b) ==
    LET ds == dates_between(a, b)
    IN  [i \in 1..Len(ds) |-> Toolchain(Nightly(ds[i]))]

\* After the loop: first_success is required, the end of the range is
\* re-confirmed, and the search is started on the days between them.
Reconfirm ==
    /\ pc = "reconfirm"
    /\ IF first_success.kind = "none"
       THEN /\ Fail("NoBaselineFound")
            /\ UNCHANGED <<toolchains, lo, hi, tried, world, log>>
       ELSE LET t_end == Toolchain(Nightly(last_failure))
            IN  \E w \in Answers(t_end.spec) :
                  LET p == install_and_test(t_end, w)
                  IN  /\ world' = Learn(t_end.spec, w)
                      /\ log' = log \o p.calls
                      /\ IF ~p.ret.ok
                         THEN /\ Fail("InstallError")
                              /\ UNCHANGED <<toolchains, lo, hi, tried>>
                         ELSE IF end_does_not_reproduce(p.ret.val)
                         THEN /\ Fail("EndpointRegression")
                              /\ UNCHANGED <<toolchains, lo, hi, tried>>
                         ELSE /\ toolchains' =
                                   toolchains_between(first_success.val, last_failure)
                              /\ SearchStart
    /\ UNCHANGED <<clVars, argVars, nfVars, cfgVars, walkVars, dl_spec, resVars, report>>

----------------------------------------------------------------------------
(* bisect_ci, bisect_ci_via, bisect_ci_in_commits                          *)

BisectCi ==
    /\ pc = "bisect_ci"
    /\ ci_start' = IF args.start.kind = "commit" THEN args.start.sha ELSE EPOCH_COMMIT
    /\ ci_end' = IF args.end.kind = "commit" THEN ShaRef(args.end.sha) ELSE OriginMaster
    /\ Goto("ci_via")
    /\ UNCHANGED <<clVars, argVars, nfVars, cfgVars, walkVars, searchVars, nightly_result,
                   ci_result, commits, ioVars>>

\* The filter kept every commit up to the retention limit.
retain_inclusive(cs) == SelectSeq(cs, LAMBDA c : c.age <= RetentionDays)

retain(cs) == SelectSeq(cs, LAMBDA c : c.age < RetentionDays)

\* bisect_ci_via, then bisect_ci_in_commits up to the list of toolchains.
\* The accessor may fail; it fails when start is not an ancestor of end.
CiCommits ==
    /\ pc = "ci_via"
    /\ LET end_sha == resolve(ci_end)
       IN  \E answered \in BOOLEAN :
             IF ~answered \/ ci_start > end_sha
             THEN Fail("AccessorError") /\ UNCHANGED <<toolchains, dl_spec, commits>>
             ELSE \E stale \in 0..(end_sha - ci_start + 1) :
                    LET kept == retain(AccessorCommits(ci_start, end_sha, stale))
                    IN  /\ commits' = AccessorCommits(ci_start, end_sha, stale)
                        /\ IF kept = <<>>
                           THEN Fail("EmptyCommitRange") /\ UNCHANGED <<toolchains, dl_spec>>
                           ELSE IF kept[Len(kept)].sha # end_sha
                           THEN Fail("EndMismatch") /\ UNCHANGED <<toolchains, dl_spec>>
                           ELSE /\ toolchains' = [i \in 1..Len(kept) |->
                                                    Toolchain(Ci(kept[i].sha, args.alt))]
                                /\ dl_spec' = "ci"
                                /\ Goto("ci_probe_start")
    /\ UNCHANGED <<clVars, argVars, nfVars, cfgVars, walkVars, lo, hi, tried, nightly_result,
                   ci_result, ci_start, ci_end, ioVars>>

\* validate commit at start of range
CiProbeStart ==
    /\ pc = "ci_probe_start"
    /\ LET t == toolchains[1]
       IN  \E w \in Answers(t.spec) :
             LET p == install_and_test(t, w)
             IN  /\ world' = Learn(t.spec, w)
                 /\ log' = log \o p.calls
                 /\ IF ~p.ret.ok THEN Fail("InstallError")
                    ELSE IF p.ret.val = "Yes" THEN Fail("EndpointBaseline")
                    ELSE Goto("ci_probe_end")
    /\ UNCHANGED <<clVars, argVars, nfVars, cfgVars, walkVars, searchVars, resVars, report>>

\* validate commit at end of range, then search
CiProbeEnd ==
    /\ pc = "ci_probe_end"
    /\ LET t == toolchains[Len(toolchains)]
       IN  \E w \in Answers(t.spec) :
             LET p == install_and_test(t, w)
             IN  /\ world' = Learn(t.spec, w)
                 /\ log' = log \o p.calls
                 /\ toolchains' = toolchains
                 /\ IF ~p.ret.ok
                    THEN Fail("InstallError") /\ UNCHANGED <<lo, hi, tried>>
                    ELSE IF end_does_not_reproduce(p.ret.val)
                    THEN Fail("EndpointRegression") /\ UNCHANGED <<lo, hi, tried>>
                    ELSE SearchStart
    /\ UNCHANGED <<clVars, argVars, nfVars, cfgVars, walkVars, dl_spec, resVars, report>>

----------------------------------------------------------------------------
(* print_results, the descent into the commits, print_final_report         *)

CurrentResult == IF dl_spec = "nightly" THEN nightly_result.val ELSE ci_result.val

searched_range(searched) ==
    LET first_toolchain == searched[1].spec
        last_toolchain == searched[Len(searched)].spec
    IN  IF first_toolchain.kind = "Ci" /\ last_toolchain.kind = "Ci"
        THEN <<first_toolchain, last_toolchain>>
        ELSE <<IF args.start.kind = "date" THEN Nightly(args.start.date)
               ELSE first_toolchain,
               Nightly(get_end_date)>>

\* What bisect() does once print_results returned.
AfterPrintResults ==
    IF is_commit THEN pc' = "exit" /\ exit_code' = 0 /\ UNCHANGED error
    ELSE IF dl_spec = "nightly" THEN Goto("descend")
    ELSE Goto("final_report")

\* The toolchain found was probed again wherever it stood.
found_is_anywhere(res) == res.found + 1 \in 1..Len(res.searched)

\* toolchains[*found] == *toolchains.last().unwrap()
found_is_last(res) == res.searched[res.found + 1] = res.searched[Len(res.searched)]

PrintResults ==
    /\ pc = "print_results"
    /\ LET res == CurrentResult
           t == res.searched[res.found + 1]
           range == [what |-> "searched", tc |-> searched_range(res.searched)]
           banner == [what |-> "Regression in", tc |-> t]
           not_found == [what |-> "regression not found", tc |-> t]
       IN  IF found_is_last(res)
           THEN \E w \in Answers(t.spec) :
                  /\ world' = Learn(t.spec, w)
                  /\ IF w \in {"Baseline", "Regressed"}
                     THEN /\ log' = log \o <<InstallEv(t, "ok"), TestEv(t, w)>>
                                  \o (IF ~args.preserve THEN <<RemoveEv(t)>> ELSE <<>>)
                          /\ report' = report \o
                                <<range, IF w = "Regressed" THEN banner ELSE not_found>>
                     ELSE /\ log' = log \o <<InstallEv(t, w), RemoveEv(t)>>
                          /\ report' = report \o <<range, not_found>>
           ELSE /\ report' = report \o <<range, banner>>
                /\ UNCHANGED <<world, log>>
    /\ AfterPrintResults
    /\ UNCHANGED <<clVars, argVars, nfVars, cfgVars, walkVars, searchVars, resVars>>

previous_date_same_day(date) == date

\* date - chrono::Duration::days(1)
previous_date(date) == date - 1

\* bisect(): the commits of the regressed nightly and of the day before are
\* fetched (Bound::sha, which may fail) and handed to bisect_ci_via.
Descend ==
    /\ pc = "descend"
    /\ LET nightly_regression == nightly_result.val.searched[nightly_result.val.found + 1]
           date == nightly_regression.spec.date
       IN  \E fetched \in BOOLEAN :
             IF fetched
             THEN /\ ci_start' = ShaOfDate(previous_date(date))
                  /\ ci_end' = ShaRef(ShaOfDate(date))
                  /\ Goto("ci_via")
             ELSE Fail("Network") /\ UNCHANGED <<ci_start, ci_end>>
    /\ UNCHANGED <<clVars, argVars, nfVars, cfgVars, walkVars, searchVars, nightly_result,
                   ci_result, commits, ioVars>>

\* The last lines printed are the reproduce command, built from
\* env::args_os().
PrintFinalReport ==
    /\ pc = "final_report"
    /\ command' = reproduce_command(argv)
    /\ UNCHANGED argv
    /\ report' = Append(report,
          [what |-> "final report",
           tc |-> <<nightly_result.val.searched[nightly_result.val.found + 1],
                    ci_result.val.searched[ci_result.val.found + 1]>>])
    /\ pc' = "exit" /\ exit_code' = 0 /\ UNCHANGED error
    /\ UNCHANGED <<clVars, nfVars, cfgVars, walkVars, searchVars, resVars, world, log>>

----------------------------------------------------------------------------
(* Specifications                                                          *)

BoundTargets == {None, Some("aarch64-apple-darwin")}
DefaultNightlies == {None, Some(end_at - 1), Some(end_at + 2)}
InstallBounds == {None, DateBound(end_at + 1), CommitBound(EPOCH_COMMIT)}

\* The dates of the model lie in October 2015; end_at is the 20th.
date_string(d) == "2015-10-" \o ToString(20 + (d - end_at))

bound_string(b) ==
    IF b.kind = "date" THEN date_string(b.date) ELSE "c" \o ToString(b.sha)

option(flag, b) == IF b.kind = "none" THEN <<>> ELSE <<flag \o bound_string(b)>>
switch(flag, on) == IF on THEN <<flag>> ELSE <<>>

\* env::args_os() of a process whose options parse to a: the program
\* name, the token "bisect-rustc" when cargo started the process as its
\* subcommand, and the options.
args_os(a, via_cargo) ==
    <<"cargo-bisect-rustc">> \o switch("bisect-rustc", via_cargo)
        \o option("--start=", a.start) \o option("--end=", a.end)
        \o switch("--by-commit", a.by_commit) \o switch("--preserve", a.preserve)
        \o switch("--alt", a.alt) \o option("--install=", a.install)
        \o (IF a.target.kind = "some" THEN <<"--target=" \o a.target.val>> ELSE <<>>)

RunIdle ==
    /\ pc = "idle" /\ error = "none" /\ exit_code = -1
    /\ args = [start |-> None, end |-> None, by_commit |-> FALSE, preserve |-> FALSE,
               alt |-> FALSE, install |-> None, target |-> None]
    /\ is_commit = FALSE
    /\ default_nightly = None
    /\ nightly_date = 0 /\ last_failure = 0 /\ first_success = None
    /\ toolchains = <<>> /\ dl_spec = "none" /\ lo = 0 /\ hi = 0 /\ tried = 0
    /\ nightly_result = None /\ ci_result = None
    /\ ci_start = 0 /\ ci_end = None /\ commits = <<>>
    /\ world = <<>> /\ log = <<>> /\ report = <<>>

\* The state when run() has parsed the command line.
Init ==
    /\ ClassifierIdle
    /\ FinderIdle
    /\ pc = "check_bounds" /\ error = "none" /\ exit_code = -1
    /\ args \in [start : Bounds, end : Bounds, by_commit : BOOLEAN,
                 preserve : BOOLEAN, alt : BOOLEAN, install : InstallBounds,
                 target : BoundTargets]
    /\ \E via_cargo \in BOOLEAN : argv = args_os(args, via_cargo)
    /\ command = <<>>
    /\ is_commit = FALSE
    \* the installed nightly is consulted only when --end is not a date
    /\ default_nightly \in (IF args.end.kind = "date" THEN {None} ELSE DefaultNightlies)
    /\ nightly_date = 0 /\ last_failure = 0 /\ first_success = None
    /\ toolchains = <<>> /\ dl_spec = "none" /\ lo = 0 /\ hi = 0 /\ tried = 0
    /\ nightly_result = None /\ ci_result = None
    /\ ci_start = 0 /\ ci_end = None /\ commits = <<>>
    /\ world = <<>> /\ log = <<>> /\ report = <<>>

Next ==
    \/ CheckBounds
    \/ FromArgs
    \/ Run
    \/ Install
    \/ BisectNightlies
    \/ WalkProbe
    \/ WalkEnd
    \/ Reconfirm
    \/ BisectCi
    \/ CiCommits
    \/ CiProbeStart
    \/ CiProbeEnd
    \/ SearchProbe
    \/ SearchReturn
    \/ PrintResults
    \/ Descend
    \/ PrintFinalReport

Spec == Init /\ [][Next]_vars

\* The runs for the host's own target (no --target).
InitLive == Init /\ args.target = None

\* A run is not suspended for ever: each step of run() is taken in the end.
SpecLive == InitLive /\ [][Next]_vars /\ WF_vars(Next)

\* Longest sequence searched in the search's own specification.
MaxLen == 5

\* bisect_to_regression called on any sequence of nightlies whose last one was
\* probed Yes, whatever the server and the tests answer for the others.
InitSearch ==
    /\ ClassifierIdle
    /\ ArgsIdle
    /\ FinderIdle
    /\ pc = "search" /\ error = "none" /\ exit_code = -1
    /\ args = [start |-> None, end |-> None, by_commit |-> FALSE, preserve |-> FALSE,
               alt |-> FALSE, install |-> None, target |-> None]
    /\ is_commit = FALSE
    /\ default_nightly = None
    /\ nightly_date = 0 /\ last_failure = 0 /\ first_success = None
    /\ \E n \in 1..MaxLen :
         /\ toolchains = toolchains_between(end_at + 1, end_at + n)
         /\ world \in [{Nightly(end_at + i) : i \in 1..n} ->
                         {"Baseline", "Regressed", "NotFound"}]
         /\ world[Nightly(end_at + n)] = "Regressed"
         /\ log = install_and_test(Toolchain(Nightly(end_at + n)), "Regressed").calls
         /\ lo = 0 /\ hi = n - 1 /\ tried = 0
    /\ dl_spec = "nightly"
    /\ nightly_result = None /\ ci_result = None
    /\ ci_start = 0 /\ ci_end = None /\ commits = <<>>
    /\ report = <<>>

NextSearch == SearchProbe \/ SearchReturn

SpecSearch == InitSearch /\ [][NextSearch]_vars

\* The program runs on while it can.
SpecSearchLive == SpecSearch /\ WF_vars(NextSearch)


InitClassify ==
    /\ probe_output \in [mode : OutputProcessingMode, success : BOOLEAN,
                         stderr : SeqsUpTo(StderrChunks, MaxStderr)]
    /\ test_outcome = "none"
    /\ ArgsIdle
    /\ FinderIdle
    /\ RunIdle

SpecClassify == InitClassify /\ [][Classify]_vars

InitReproduce ==
    /\ ClassifierIdle
    /\ FinderIdle
    /\ RunIdle
    /\ \E name \in ProgramNames :
          \E rest \in SeqsUpTo(ArgTokens, MaxArgs) : argv = <<name>> \o rest
    /\ command = <<>>

SpecReproduce == InitReproduce /\ [][PrintReproduce]_vars

InitFinder ==
    /\ ClassifierIdle
    /\ ArgsIdle
    /\ \E a \in 1..MaxAnchor : nightly_iter = NightlyFinderIter_new(end_at + a)
    /\ emitted = <<>>
    /\ RunIdle

SpecFinder == InitFinder /\ [][IterNext]_vars

----------------------------------------------------------------------------
(* C1: default_outcome_of_output returns exactly the table value for every *)
(* mode, exit status and stderr content.                                   *)
HasIce(output) ==
    \E i \in 1..Len(output.stderr) :
        /\ i + 2 <= Len(output.stderr)
        /\ output.stderr[i] = "error"
        /\ output.stderr[i + 1] = ": internal compiler "
        /\ output.stderr[i + 2] = "error"

OutcomeTable(mode, success, ice) ==
    IF mode = "RegressOnErrorStatus" THEN (IF success THEN "Baseline" ELSE "Regressed")
    ELSE IF mode = "RegressOnSuccessStatus" THEN (IF success THEN "Regressed" ELSE "Baseline")
    ELSE IF mode = "RegressOnIceAlone" THEN (IF ice THEN "Regressed" ELSE "Baseline")
    ELSE IF mode = "RegressOnNotIce" THEN (IF ice THEN "Baseline" ELSE "Regressed")
    ELSE IF success THEN "Regressed"
    ELSE IF ice THEN "Regressed" ELSE "Baseline"

\* C1: once classified, the outcome is the table's value.
C1_OutcomeTable ==
    test_outcome # "none" =>
        test_outcome = OutcomeTable(probe_output.mode, probe_output.success,
                                    HasIce(probe_output))

\* --regress=ice, exit status success, the marker followed by more text.
C1_Witness ==
    /\ probe_output.mode = "RegressOnIceAlone"
    /\ probe_output.success
    /\ probe_output.stderr = <<"warning: unused\n", "error", ": internal compiler ", "error">>
    /\ test_outcome = "Regressed"

----------------------------------------------------------------------------
(* Reading the log                                                         *)

LogIdx == 1..Len(log)

\* Some probe of toolchain t ran its test with result res.
Probed(t, res) == \E i \in LogIdx : log[i] = TestEv(t, res)

Installs(t) == {i \in LogIdx : log[i].op = "install" /\ log[i].tc = t}

\* What the latest probe of t answered: Unknown when its install failed.
LastAnswer(t) ==
    IF Installs(t) = {} THEN "none"
    ELSE LET i == CHOOSE x \in Installs(t) : \A y \in Installs(t) : y <= x
         IN  IF log[i].res # "ok" THEN "Unknown"
             ELSE IF log[i + 1].res = "Regressed" THEN "Yes" ELSE "No"

NoInstallAfter(i) == \A j \in LogIdx : j > i => log[j].op # "install"

Tests == {i \in LogIdx : log[i].op = "test"}

\* The latest test run, if any, was the test of t and had result res.
LastTestIs(t, res) ==
    /\ Tests # {}
    /\ LET i == CHOOSE x \in Tests : \A y \in Tests : y <= x
       IN  log[i] = TestEv(t, res)

----------------------------------------------------------------------------
(* C2: when the probe of the start of the range (the start nightly given   *)
(* by the user, the first surviving commit) answers Yes, the run fails     *)
(* with the start-of-range error; no search and no further probe follow.   *)
C2_Stopped(i) ==
    /\ pc = "exit"
    /\ error = "EndpointBaseline"
    /\ NoInstallAfter(i)
    /\ IF dl_spec = "nightly" THEN nightly_result = None ELSE ci_result = None

C2_StartMustNotReproduce ==
    /\ (dl_spec = "nightly" /\ args.start.kind = "date") =>
          \A i \in LogIdx :
              log[i] = TestEv(Toolchain(Nightly(args.start.date)), "Regressed")
                  => C2_Stopped(i)
    /\ dl_spec = "ci" =>
          \A i \in LogIdx :
              log[i] = TestEv(toolchains[1], "Regressed") => C2_Stopped(i)

\* --start c --end c for a commit c that reproduces the regression.
C2_Witness ==
    /\ args.start.kind = "commit"
    /\ args.start = args.end
    /\ Len(toolchains) = 1
    /\ Probed(toolchains[1], "Regressed")
    /\ error = "EndpointBaseline"

----------------------------------------------------------------------------
(* C3: the search starts only after the last element of the searched       *)
(* sequence was probed Yes; when the probe of the end answers No the run   *)
(* fails with the end-of-range error and the search is not started.        *)
C3_EndElement ==
    IF dl_spec = "nightly" THEN Toolchain(Nightly(last_failure))
    ELSE toolchains[Len(toolchains)]

C3_State ==
    /\ pc = "search" => Probed(toolchains[Len(toolchains)], "Regressed")
    /\ error = "EndpointRegression" =>
          /\ pc = "exit"
          /\ LastTestIs(C3_EndElement, "Baseline")
          /\ IF dl_spec = "nightly" THEN nightly_result = None ELSE ci_result = None

C3_Step ==
    (/\ pc \in {"reconfirm", "ci_probe_end"}
     /\ log' # log
     /\ log'[Len(log) + 1].res = "ok"
     /\ log'[Len(log) + 2].res = "Baseline")
        => (pc' = "exit" /\ error' = "EndpointRegression")

C3_EndMustReproduce == [](C3_State) /\ [][C3_Step]_vars

\* The nightly search starts after a walk that found its own baseline.
C3_Witness ==
    /\ pc = "search"
    /\ dl_spec = "nightly"
    /\ ~has_start
    /\ Len(toolchains) >= 3
    /\ Probed(toolchains[Len(toolchains)], "Regressed")

----------------------------------------------------------------------------
(* C4: every BisectionResult has 0 <= found < N, a probe of the found      *)
(* element answered Yes, and when found > 0 the probe of its predecessor   *)
(* answered No or Unknown.                                                 *)
C4_ResultOk(r) ==
    r.kind = "some" =>
        LET n == Len(r.val.searched)
            k == r.val.found
        IN  /\ 0 <= k
            /\ k < n
            /\ Probed(r.val.searched[k + 1], "Regressed")
            /\ k > 0 => LastAnswer(r.val.searched[k]) \in {"No", "Unknown"}

C4_ResultBounds == C4_ResultOk(nightly_result) /\ C4_ResultOk(ci_result)

\* A nightly result in the middle of the range, behind an unknown nightly.
C4_Witness ==
    /\ nightly_result.kind = "some"
    /\ nightly_result.val.found > 0
    /\ nightly_result.val.found < Len(nightly_result.val.searched) - 1
    /\ LastAnswer(nightly_result.val.searched[nightly_result.val.found]) = "Unknown"
    /\ ci_result.kind = "some"

----------------------------------------------------------------------------
(* C5: on a sequence whose probes answer No below m and Yes from m on, the *)
(* search returns m.                                                       *)
C5_IndexOf(t) == CHOOSE j \in 0..(Len(toolchains) - 1) : toolchains[j + 1] = t

C5_Monotone(m) ==
    \A j \in 0..(Len(toolchains) - 1) :
        world[toolchains[j + 1].spec] = (IF j < m THEN "Baseline" ELSE "Regressed")

C5_AllAnswered == \A i \in LogIdx : log[i].op = "install" => log[i].res = "ok"

C5_LeastSatisfying ==
    pc = "print_results" =>
        \A m \in 0..(Len(toolchains) - 1) :
            (C5_Monotone(m) /\ C5_AllAnswered) => nightly_result.val.found = m

C5_Witness ==
    /\ pc = "print_results"
    /\ Len(toolchains) = 5
    /\ C5_Monotone(3)
    /\ C5_AllAnswered
    /\ nightly_result.val.found = 3

----------------------------------------------------------------------------
(* C6: with Unknown answers the search still ends, and the index returned  *)
(* lies above every index probed No and not above any index probed Yes;    *)
(* when the rest of the window is Unknown it is the window's upper end.    *)
C6_Unknown(j) == world[toolchains[j + 1].spec] = "NotFound"

\* The answers other than Unknown are No below m and Yes from m on.
C6_MonotoneButUnknown(m) ==
    \A j \in 0..(Len(toolchains) - 1) :
        \/ C6_Unknown(j)
        \/ world[toolchains[j + 1].spec] = (IF j < m THEN "Baseline" ELSE "Regressed")

C6_Yes == {j \in 0..(Len(toolchains) - 1) : world[toolchains[j + 1].spec] = "Regressed"}

\* The least index that answers Yes; the last index when none does.
C6_Boundary ==
    IF C6_Yes = {} THEN Len(toolchains) - 1
    ELSE CHOOSE j \in C6_Yes : \A x \in C6_Yes : j <= x

C6_Returned ==
    pc = "print_results" =>
        LET k == nightly_result.val.found
        IN  /\ \A i \in Tests :
                /\ log[i].res = "Baseline" => C5_IndexOf(log[i].tc) < k
                /\ log[i].res = "Regressed" => C5_IndexOf(log[i].tc) >= k
            /\ k = hi
            /\ \A j \in lo..(hi - 1) : LastAnswer(toolchains[j + 1]) = "Unknown"
            /\ ((\E m \in 0..Len(toolchains) : C6_MonotoneButUnknown(m))
                  /\ (\A i \in LogIdx : log[i].res # "Failed"))
                  => k = C6_Boundary

C6_SearchWithUnknowns == [](C6_Returned) /\ <>(pc = "print_results")

\* The window left is all Unknown and its upper end is returned.
C6_Witness ==
    /\ pc = "print_results"
    /\ Len(toolchains) = 5
    /\ lo = 1
    /\ hi = 3
    /\ nightly_result.val.found = 3
    /\ C6_Unknown(1) /\ C6_Unknown(2)

----------------------------------------------------------------------------
(* C7: in the search, a candidate whose install fails is answered Unknown: *)
(* its test is not run, the window is not narrowed, and the run goes on.   *)
C7_Step ==
    (/\ pc = "search"
     /\ log' # log
     /\ log'[Len(log) + 1].res # "ok")
        => /\ pc' = "search"
           /\ error' = "none"
           /\ lo' = lo /\ hi' = hi
           /\ tried' = tried + 1
           /\ \A i \in (Len(log) + 1)..Len(log') : log'[i].op # "test"

C7_InstallFailureIsUnknown == [][C7_Step]_vars

\* A failed install in the search, after which the search went on to a result.
C7_Witness ==
    /\ pc = "print_results"
    /\ dl_spec = "ci"
    /\ \E j \in 1..Len(toolchains) :
          /\ LastAnswer(toolchains[j]) = "Unknown"
          /\ ~Probed(toolchains[j], "Baseline")
          /\ ~Probed(toolchains[j], "Regressed")
    /\ error = "none"

----------------------------------------------------------------------------
(* C8 (as amended): bisect runs the CI phase directly, probing no nightly, *)
(* exactly when --by-commit was given or a bound is a commit; it runs the  *)
(* nightly phase first exactly when --by-commit was not given and no bound *)
(* is a commit.                                                            *)
C8_CommitBound == args.start.kind = "commit" \/ args.end.kind = "commit"
C8_BothCommits == args.start.kind = "commit" /\ args.end.kind = "commit"

C8_StrategySelection ==
    /\ pc = "bisect_ci" => (args.by_commit \/ C8_CommitBound) /\ log = <<>>
    /\ pc = "bisect_nightlies" => ~args.by_commit /\ ~C8_CommitBound
    /\ (dl_spec = "ci" /\ nightly_result = None) =>
          \A i \in LogIdx : log[i].tc.spec.kind = "Ci"

\* C8 as claimed: the CI phase runs directly exactly when both bounds are
\* commits (given as commits, or dates converted under --by-commit).
C8_AsClaimed ==
    /\ pc = "bisect_ci" => C8_BothCommits
    /\ pc = "bisect_nightlies" => ~C8_BothCommits

\* Only --start is given, a commit: the CI phase runs, with no nightly probed.
C8_Witness ==
    /\ args.start.kind = "commit"
    /\ args.end.kind = "none"
    /\ ~args.by_commit
    /\ ci_result.kind = "some"
    /\ nightly_result = None

----------------------------------------------------------------------------
(* C9: after the nightly phase found the nightly dated D, the CI phase is  *)
(* run from the commit of D-1 to the commit of D, after the nightly phase  *)
(* ended; the final report is printed once the CI phase has a result.      *)
C9_FoundDate ==
    nightly_result.val.searched[nightly_result.val.found + 1].spec.date

C9_Descent ==
    /\ (dl_spec = "ci" /\ ~is_commit) =>
          /\ nightly_result.kind = "some"
          /\ ci_start = ShaOfDate(C9_FoundDate - 1)
          /\ ci_end = ShaRef(ShaOfDate(C9_FoundDate))
    /\ (pc = "ci_via" /\ ~is_commit) => nightly_result.kind = "some"
    /\ (~is_commit /\ args.install = None /\ nightly_result = None) =>
          \A i \in LogIdx : log[i].tc.spec.kind # "Ci"
    /\ \A i, j \in LogIdx :
          (i < j /\ log[i].tc.spec.kind = "Ci") => log[j].tc.spec.kind = "Ci"
    /\ (\E i \in 1..Len(report) : report[i].what = "final report") =>
          /\ nightly_result.kind = "some"
          /\ ci_result.kind = "some"
          /\ pc = "exit"

C9_Witness ==
    /\ pc = "exit"
    /\ report # <<>>
    /\ report[Len(report)].what = "final report"
    /\ C9_FoundDate = end_at + 3
    /\ ci_result.val.searched[1].spec.commit = ShaOfDate(end_at + 2)
    /\ ci_result.val.searched[Len(ci_result.val.searched)].spec.commit =
          ShaOfDate(end_at + 3)

----------------------------------------------------------------------------
(* C10: the dates emitted by NightlyFinderIter::next.                      *)
StrideOffsets == <<2, 4, 6, 8, 15, 22, 29, 36, 43, 50, 64, 78>>

ExpectedOffset(n) ==
    IF n <= Len(StrideOffsets) THEN StrideOffsets[n]
    ELSE 78 + 14 * (n - Len(StrideOffsets))

\* C10: the n-th date emitted is the anchor minus the n-th offset, the step
\* follows the distance of the last emitted date, and dates strictly decrease.
C10_FinderStrides ==
    \A n \in 1..Len(emitted) :
        LET anchor == nightly_iter.start_date
            prev == IF n = 1 THEN anchor ELSE emitted[n - 1]
            behind == anchor - prev
        IN  /\ emitted[n] = anchor - ExpectedOffset(n)
            /\ emitted[n] < prev
            /\ prev - emitted[n] =
                  (IF behind < 7 THEN 2 ELSE IF behind < 49 THEN 7 ELSE 14)

C10_Witness ==
    /\ Len(emitted) = 13
    /\ emitted[12] = nightly_iter.start_date - 78
    /\ emitted[13] = nightly_iter.start_date - 92

----------------------------------------------------------------------------
(* C11: bisect_nightlies installs no nightly dated before the floor        *)
(* 2015-10-20: not in the walk, not when it re-confirms last_failure, not  *)
(* among the candidates of the search.  The walk keeps to this; the        *)
(* re-confirmation does not when the end date comes from the installed     *)
(* nightly and that nightly is older than the floor.                       *)
C11_NightlyRun == args.install = None /\ ~is_commit

C11_FloorAsClaimed ==
    C11_NightlyRun =>
        /\ \A i \in LogIdx :
              log[i].tc.spec.kind = "Nightly" => log[i].tc.spec.date >= end_at
        /\ dl_spec = "nightly" =>
              \A j \in 1..Len(toolchains) : toolchains[j].spec.date >= end_at

\* --start on a nightly that passes, no --end, the installed nightly older
\* than the floor: that nightly is installed to re-confirm the regression.
C11_Witness ==
    /\ C11_NightlyRun
    /\ args.start.kind = "date" /\ args.end = None
    /\ default_nightly = Some(end_at - 1)
    /\ first_success = Some(args.start.date)
    /\ \E i \in LogIdx : log[i] = InstallEv(Toolchain(Nightly(end_at - 1)), "ok")

----------------------------------------------------------------------------
(* C12: when the walk of bisect_nightlies reaches the floor and no probe   *)
(* has answered No, bisect_nightlies fails for want of a baseline: it does *)
(* not re-confirm last_failure and does not run the search.                *)
C12_NoBaselineTested == \A i \in Tests : log[i].res # "Baseline"

C12_State ==
    /\ (pc = "reconfirm" /\ C12_NoBaselineTested) =>
          first_success = None /\ nightly_date <= end_at
    /\ error = "NoBaselineFound" =>
          /\ pc = "exit" /\ exit_code = 1
          /\ nightly_date <= end_at
          /\ C12_NoBaselineTested
          /\ toolchains = <<>>
          /\ nightly_result = None /\ ci_result = None

C12_Step ==
    (pc = "reconfirm" /\ first_success = None) =>
        /\ log' = log
        /\ toolchains' = toolchains
        /\ pc' = "exit" /\ error' = "NoBaselineFound"

C12_NoBaselineFound == [](C12_State) /\ [][C12_Step]_vars

\* Both nightlies down to the floor reproduce the regression.
C12_Witness ==
    /\ error = "NoBaselineFound"
    /\ Cardinality({i \in Tests : log[i].res = "Regressed"}) = 2
    /\ Len(emitted) = 2
    /\ emitted[2] <= end_at

----------------------------------------------------------------------------
(* C13 (as amended): in the walk, when the install of the nightly dated d  *)
(* fails with NotFound: without a start bound the walk goes on at d-1,     *)
(* which is the next nightly probed when it is after the floor, and at the *)
(* floor the walk ends there, no baseline found; with a start bound the    *)
(* run fails and nothing more is probed.  Any other install error ends the *)
(* run with that error.                                                    *)
C13_WalkInstallFails(res) ==
    /\ pc = "walk"
    /\ log' # log
    /\ log'[Len(log) + 1].res = res

C13_Recovered ==
    /\ pc' = "walk" /\ error' = "none"
    /\ nightly_date' = nightly_date - 1
    /\ first_success' = None
    /\ \A i \in (Len(log) + 1)..Len(log') : log'[i].op # "test"

C13_Step ==
    /\ (pc = "walk" /\ log' # log) =>
          /\ log'[Len(log) + 1].op = "install"
          /\ log'[Len(log) + 1].tc = Toolchain(Nightly(nightly_date))
          /\ nightly_date > end_at
    /\ (C13_WalkInstallFails("NotFound") /\ args.start = None) => C13_Recovered
    /\ (C13_WalkInstallFails("NotFound") /\ args.start # None) =>
          pc' = "exit" /\ error' = "NoSuchArtifact" /\ exit_code' = 1
    /\ C13_WalkInstallFails("Failed") =>
          pc' = "exit" /\ error' = "InstallError" /\ exit_code' = 1
    /\ pc # "exit"

C13_NotFoundInWalk == [][C13_Step]_vars

\* C13 as claimed: without a start bound the nightly d-1 is probed next,
\* whatever d is.
C13_StepAsClaimed ==
    /\ (C13_WalkInstallFails("NotFound") /\ args.start = None) =>
          C13_Recovered /\ nightly_date' > end_at
    /\ (C13_WalkInstallFails("NotFound") /\ args.start # None) =>
          pc' = "exit" /\ error' = "NoSuchArtifact"
    /\ C13_WalkInstallFails("Failed") =>
          pc' = "exit" /\ error' = "InstallError"

C13_AsClaimed == [][C13_StepAsClaimed]_vars

\* A missing nightly d, then the probe of d-1, in a run with no start bound.
C13_Witness ==
    /\ args.start = None /\ args.install = None /\ ~is_commit
    /\ \E i \in LogIdx : \E j \in LogIdx :
          /\ log[i].op = "install" /\ log[i].res = "NotFound"
          /\ j > i /\ log[j].op = "install"
          /\ \A k \in (i + 1)..(j - 1) : log[k].op = "remove"
          /\ log[j].tc.spec = Nightly(log[i].tc.spec.date - 1)
          /\ Len(emitted) = 0

----------------------------------------------------------------------------
(* C14: without --preserve every probe is install, then test when the      *)
(* install succeeded, then remove, all of the same toolchain; a failed     *)
(* install is followed by its remove too; and a probe's remove comes       *)
(* before the next probe's install.                                        *)
C14_ProbeOrder ==
    (~args.preserve /\ args.install = None) =>
        \A i \in LogIdx :
            /\ (log[i].op = "install" /\ log[i].res = "ok") =>
                  /\ i + 2 <= Len(log)
                  /\ log[i + 1].op = "test" /\ log[i + 1].tc = log[i].tc
                  /\ log[i + 2] = RemoveEv(log[i].tc)
            /\ (log[i].op = "install" /\ log[i].res # "ok") =>
                  /\ i + 1 <= Len(log)
                  /\ log[i + 1] = RemoveEv(log[i].tc)
            /\ log[i].op = "test" =>
                  i > 1 /\ log[i - 1] = InstallEv(log[i].tc, "ok")
            /\ log[i].op = "remove" =>
                  /\ i > 1
                  /\ log[i - 1].tc = log[i].tc
                  /\ log[i - 1].op = "test" \/ (log[i - 1].op = "install"
                                                /\ log[i - 1].res # "ok")
            /\ (log[i].op = "install" /\ i > 1) => log[i - 1].op = "remove"

\* A probe whose install failed, then a probe that ran its test, in the search.
C14_Witness ==
    /\ ~args.preserve /\ args.install = None
    /\ pc = "search"
    /\ \E i \in LogIdx :
          /\ i + 4 <= Len(log)
          /\ log[i].op = "install" /\ log[i].res = "Failed"
          /\ log[i + 1].op = "remove"
          /\ log[i + 2].op = "install" /\ log[i + 2].res = "ok"
          /\ log[i + 3].op = "test"
          /\ log[i + 4].op = "remove"
          /\ log[i + 2].tc # log[i].tc

----------------------------------------------------------------------------
(* C15: with --preserve no toolchain is removed at any point of a run:     *)
(* not after a probe, not after a failed install, not in the re-probe of   *)
(* print_results.  The probes keep to this; the re-probe of print_results  *)
(* removes the toolchain when its install fails, --preserve or not.        *)
C15_PreserveAsClaimed ==
    args.preserve => \A i \in LogIdx : log[i].op # "remove"

\* --preserve, the last commit of the range is found, and its install for
\* the re-probe fails: the toolchain is removed.
C15_Witness ==
    /\ args.preserve
    /\ ci_result.kind = "some"
    /\ ci_result.val.found = Len(ci_result.val.searched) - 1
    /\ Len(log) >= 2
    /\ log[Len(log) - 1] = InstallEv(ci_result.val.searched[ci_result.val.found + 1],
                                     "Failed")
    /\ log[Len(log)] = RemoveEv(ci_result.val.searched[ci_result.val.found + 1])
    /\ \A i \in 1..(Len(log) - 1) : log[i].op # "remove"

----------------------------------------------------------------------------
(* C16: when the toolchain found fails its re-confirmation in              *)
(* print_results the run ends with a non-zero exit code, and the exit code *)
(* is zero only when a regression was found and reported.  print_results   *)
(* returns nothing, so bisect carries on and the run exits with zero.      *)
C16_Reported(what) == \E i \in 1..Len(report) : report[i].what = what

C16_ExitCodeAsClaimed ==
    (pc = "exit" /\ args.install = None) =>
        /\ C16_Reported("regression not found") => exit_code # 0
        /\ exit_code = 0 => C16_Reported("Regression in")

\* The re-probe of the commit found could not install it; nothing was
\* reported as the regression, and the run exits with zero.
C16_Witness ==
    /\ pc = "exit" /\ exit_code = 0 /\ error = "none"
    /\ args.install = None /\ is_commit
    /\ ci_result.kind = "some"
    /\ C16_Reported("regression not found")
    /\ ~C16_Reported("Regression in")
    /\ log[Len(log) - 1].res = "Failed"

----------------------------------------------------------------------------
(* C17: in the CI phase every commit installed or probed is less than 167  *)
(* days old; the commits that survive the filter keep the order the        *)
(* accessor gave them; and when none survives the run fails before any     *)
(* toolchain is installed.                                                 *)
C17_Young == SelectSeq(commits, LAMBDA c : c.age < 167)

C17_RetentionFilter ==
    args.install = None =>
        /\ dl_spec = "ci" =>
              toolchains = [i \in 1..Len(C17_Young) |->
                               Toolchain(Ci(C17_Young[i].sha, args.alt))]
        /\ \A i \in LogIdx :
              log[i].tc.spec.kind = "Ci" =>
                  \E j \in 1..Len(commits) :
                      /\ commits[j].sha = log[i].tc.spec.commit
                      /\ commits[j].age < 167
        /\ error = "EmptyCommitRange" =>
              /\ pc = "exit" /\ exit_code = 1
              /\ commits # <<>>
              /\ C17_Young = <<>>
              /\ \A i \in LogIdx : log[i].tc.spec.kind # "Ci"
              /\ ci_result = None

\* Three commits, the oldest too old: the two others are searched, in order.
C17_Witness ==
    /\ args.install = None
    /\ Len(commits) = 3
    /\ commits[1].age = 167
    /\ ci_result.kind = "some"
    /\ Len(ci_result.val.searched) = 2
    /\ ci_result.val.searched[1].spec.commit = commits[2].sha
    /\ ci_result.val.searched[2].spec.commit = commits[3].sha

----------------------------------------------------------------------------
(* C18: a run given two dates with end < start, or bounds of different     *)
(* kinds, fails before any toolchain is installed or probed; two equal     *)
(* dates are accepted.  So once anything was installed, two supplied       *)
(* bounds have the same kind and, when dates, start <= end.                *)
C18_BothSupplied == args.start # None /\ args.end # None

C18_BoundsValidated ==
    /\ error \in {"BoundOrder", "BoundMismatch"} =>
          pc = "exit" /\ exit_code = 1 /\ log = <<>>
    /\ (pc \notin {"check_bounds", "from_args", "exit"} /\ C18_BothSupplied) =>
          /\ args.start.kind = args.end.kind
          /\ args.start.kind = "date" => args.start.date <= args.end.date
    /\ (log # <<>> /\ C18_BothSupplied) =>
          /\ args.start.kind = args.end.kind
          /\ args.start.kind = "date" => args.start.date <= args.end.date
    /\ (pc = "exit" /\ C18_BothSupplied /\ args.start.kind = "date"
          /\ args.end.kind = "date" /\ args.end.date < args.start.date) =>
          error = "BoundOrder"
    /\ (pc = "exit" /\ C18_BothSupplied /\ args.start.kind # args.end.kind) =>
          error = "BoundMismatch"

\* --start d --end d: the nightly of d is probed.
C18_Witness ==
    /\ args.start.kind = "date"
    /\ args.start = args.end
    /\ args.install = None
    /\ Probed(Toolchain(Nightly(args.start.date)), "Baseline")
    /\ error = "EndpointRegression"

----------------------------------------------------------------------------
(* C19 (as amended): with --install, once the bounds have passed           *)
(* check_bounds and from_args, the run makes at most one install attempt,  *)
(* of the toolchain the bound designates, exactly one unless the commit    *)
(* cannot be resolved; it runs no test, no remove and no bisection; and it *)
(* exits with success exactly when that install succeeded.                 *)
C19_Designated ==
    IF args.install.kind = "date"
    THEN [spec |-> Nightly(args.install.date), host |-> Host,
          std_targets |-> IF cfg_target = Host THEN <<Host>>
                          ELSE <<"aarch64-apple-darwin", Host>>]
    ELSE [spec |-> Ci(args.install.sha, args.alt), host |-> Host,
          std_targets |-> IF cfg_target = Host THEN <<Host>>
                          ELSE <<"aarch64-apple-darwin", Host>>]

C19_NoBisection ==
    /\ pc \notin {"bisect_nightlies", "walk", "reconfirm", "bisect_ci", "ci_via",
                  "ci_probe_start", "ci_probe_end", "search", "print_results",
                  "descend", "final_report"}
    /\ toolchains = <<>> /\ report = <<>>
    /\ nightly_result = None /\ ci_result = None

C19_InstallMode ==
    args.install # None =>
        /\ C19_NoBisection
        /\ Len(log) <= 1
        /\ \A i \in LogIdx : log[i].op = "install" /\ log[i].tc = C19_Designated
        /\ pc = "exit" =>
              /\ exit_code = 0 <=> (Len(log) = 1 /\ log[1].res = "ok")
              /\ log = <<>> => error \in {"BoundOrder", "BoundMismatch", "Network",
                                          "unreachable", "AccessorError"}
              /\ (log = <<>> /\ error = "AccessorError") => args.install.kind = "commit"

\* C19 as claimed: exactly one install attempt, whatever --start and --end are.
C19_AsClaimed ==
    (args.install # None /\ pc = "exit") =>
        /\ C19_NoBisection
        /\ Len(log) = 1
        /\ log[1].op = "install" /\ log[1].tc = C19_Designated
        /\ exit_code = 0 <=> log[1].res = "ok"

\* --install <sha> with a start and an end given: the commit is installed.
C19_Witness ==
    /\ args.install.kind = "commit"
    /\ args.start.kind = "date" /\ args.end.kind = "date"
    /\ args.alt
    /\ pc = "exit" /\ exit_code = 0
    /\ log = <<InstallEv(C19_Designated, "ok")>>

----------------------------------------------------------------------------
(* C20: every toolchain installed or probed, and every candidate of a      *)
(* search, has std_targets sorted and without duplicates: [host] when the  *)
(* target is the host, host and target in ascending order otherwise.       *)
C20_Sorted(ts) ==
    /\ \A i \in 1..(Len(ts) - 1) : TripleRank(ts[i]) < TripleRank(ts[i + 1])
    /\ IF cfg_target = Host THEN ts = <<Host>>
       ELSE Len(ts) = 2 /\ {ts[1], ts[2]} = {Host, cfg_target}

C20_StdTargets ==
    /\ \A i \in LogIdx : C20_Sorted(log[i].tc.std_targets)
    /\ \A j \in 1..Len(toolchains) : C20_Sorted(toolchains[j].std_targets)

\* A target that sorts before the host: commits are probed with the target
\* first.
C20_Witness ==
    /\ args.target = Some("aarch64-apple-darwin")
    /\ dl_spec = "ci"
    /\ Len(toolchains) >= 2
    /\ log # <<>>
    /\ log[Len(log)].tc.std_targets = <<"aarch64-apple-darwin", Host>>
    /\ \E i \in LogIdx : log[i].tc.spec.kind = "Nightly"

----------------------------------------------------------------------------
(* C21: the reproduce command is "cargo bisect-rustc " followed by the     *)
(* process's arguments with the program name and the bisect-rustc token    *)
(* stripped, every other argument kept in order, whether or not the        *)
(* process was started with a bisect-rustc argument.  The command printed  *)
(* skips the first two entries of the argument vector whatever they are.   *)
C21_ReproduceAsClaimed ==
    command # <<>> => command = <<"cargo bisect-rustc ">> \o Tail(run_args(argv))

\* Started as `cargo-bisect-rustc --preserve -- build`: --preserve is not
\* in the command printed.
C21_Witness ==
    /\ argv = <<"cargo-bisect-rustc", "--preserve", "--", "build">>
    /\ command = <<"cargo bisect-rustc ", "--", "build">>

----------------------------------------------------------------------------
(* C22: the sequence bisect_nightlies hands to the search is non-empty and *)
(* is the consecutive days from first_success to last_failure, ascending,  *)
(* so first_success <= last_failure; its first nightly was probed No and   *)
(* its last was probed Yes; whatever bounds are given or defaulted.  With  *)
(* a start date later than the defaulted end date the sequence is empty.   *)
C22_HandedToSearch ==
    dl_spec = "nightly" /\ (pc = "search" \/ error = "EmptySequence")

C22_SearchedDaysAsClaimed ==
    C22_HandedToSearch =>
        /\ toolchains # <<>>
        /\ first_success.val <= last_failure
        /\ toolchains = [i \in 1..(last_failure - first_success.val + 1) |->
                            [spec |-> Nightly(first_success.val + i - 1),
                             host |-> Host,
                             std_targets |-> Toolchain(Nightly(0)).std_targets]]
        /\ Probed(Toolchain(Nightly(first_success.val)), "Baseline")
        /\ Probed(Toolchain(Nightly(last_failure)), "Regressed")

\* --start three days after the floor passes, there is no --end, and the
\* installed nightly, older than the start, reproduces the regression.
C22_Witness ==
    /\ C22_HandedToSearch
    /\ args.start = DateBound(end_at + 3) /\ args.end = None
    /\ default_nightly = Some(end_at + 2)
    /\ first_success = Some(end_at + 3)
    /\ last_failure = end_at + 2
    /\ Probed(Toolchain(Nightly(end_at + 3)), "Baseline")
    /\ Probed(Toolchain(Nightly(end_at + 2)), "Regressed")
    /\ toolchains = <<>>

----------------------------------------------------------------------------
(* C23: for every --start and --end (absent, a date or a commit), with or  *)
(* without --by-commit, Config::from_args returns a Config or an error: it *)
(* never reaches the unreachable branch of the date-to-commit conversion   *)
(* and never panics.  With --by-commit and a single date bound it does.    *)
C23_FromArgsAsClaimed ==
    /\ error # "unreachable"
    /\ (pc = "exit" /\ log = <<>> /\ toolchains = <<>>) => exit_code # 101

\* --by-commit --start <date>, no --end.
C23_Witness ==
    /\ args.by_commit
    /\ args.start.kind = "date" /\ args.end = None
    /\ pc = "exit" /\ error = "unreachable" /\ exit_code = 101
    /\ log = <<>>

----------------------------------------------------------------------------
(* C24: the walk of bisect_nightlies always ends: whatever the probes      *)
(* answer, after finitely many probes a probe answered No, the run failed, *)
(* or the date reached the floor.  Each turn of the loop lowers the pair   *)
(* (date of the iterator, nightly_date), which stays above the floor       *)
(* while the loop runs.                                                    *)
C24_State ==
    pc = "walk" =>
        /\ nightly_date <= nightly_iter.current_date
        /\ nightly_iter.current_date <= nightly_iter.start_date
        /\ first_success = None

C24_Step ==
    (pc = "walk" /\ pc' = "walk") =>
        /\ nightly_date > end_at
        /\ \/ nightly_iter'.current_date < nightly_iter.current_date
           \/ /\ nightly_iter' = nightly_iter
              /\ nightly_date' < nightly_date
    
C24_Left ==
    \/ pc = "reconfirm" /\ (first_success # None \/ nightly_date <= end_at)
    \/ pc = "exit" /\ error \in {"EndpointBaseline", "NoSuchArtifact", "InstallError"}

C24_WalkTerminates ==
    /\ [](C24_State)
    /\ [][C24_Step]_vars
    /\ [][(pc = "walk" /\ pc' # "walk") => C24_Left']_vars
    /\ (pc = "walk") ~> (pc # "walk")

\* A walk of two missing nightlies and two strides that ends at the floor.
C24_Witness ==
    /\ pc = "reconfirm"
    /\ first_success = None
    /\ nightly_date <= end_at
    /\ Len(emitted) = 2
    /\ Cardinality({i \in LogIdx : log[i].res = "NotFound"}) = 2

----------------------------------------------------------------------------
(* C25: in the walk of bisect_nightlies with no start supplied by the      *)
(* user, each nightly probed is strictly older than the one probed just    *)
(* before it, also when roll-backs of one day after NotFound are mixed     *)
(* with strides of the iterator; so no nightly is installed twice during   *)
(* the walk.                                                               *)
C25_InWalk == pc \in {"walk", "reconfirm"} /\ ~has_start

C25_WalkInstalls == {i \in LogIdx : log[i].op = "install"}

C25_StrictlyOlderAsClaimed ==
    C25_InWalk =>
        \A i, j \in C25_WalkInstalls :
            i < j => log[j].tc.spec.date < log[i].tc.spec.date

\* Two roll-backs, then a probe that reproduces: the stride of the
\* iterator lands on the nightly just probed, which is installed again.
C25_Witness ==
    /\ C25_InWalk
    /\ \E i, j \in C25_WalkInstalls :
          /\ i < j
          /\ log[i].tc = log[j].tc
          /\ log[i].res = "ok" /\ log[j].res = "ok"
    /\ Cardinality({i \in LogIdx : log[i].res = "NotFound"}) = 2

----------------------------------------------------------------------------
(* C26: when the user supplied a start date, the nightly phase never       *)
(* installs or probes a nightly older than that start: the walk makes      *)
(* exactly one probe, of the start nightly, and ends with first_success =  *)
(* start, a failure or an error, and the iterator is never advanced.       *)
C26_Pinned == args.start.kind = "date" /\ ~install_mode

C26_NightlyInstalls ==
    {i \in LogIdx : log[i].op = "install" /\ log[i].tc.spec.kind = "Nightly"}

\* No nightly older than the start is installed.
C26_NotOlder ==
    C26_Pinned =>
        \A i \in C26_NightlyInstalls : log[i].tc.spec.date >= args.start.date

\* The walk is left after one probe of the start nightly.
C26_OneProbe ==
    (C26_Pinned /\ pc = "reconfirm") =>
        /\ Cardinality(C26_NightlyInstalls) = 1
        /\ \A i \in C26_NightlyInstalls : log[i].tc.spec.date = args.start.date
        /\ first_success = Some(args.start.date)

\* The walk never probes twice and never leaves the start nightly.
C26_AtMostOneProbe ==
    (C26_Pinned /\ pc \in {"walk", "reconfirm"}) =>
        /\ Cardinality(C26_NightlyInstalls) <= 1
        /\ \A i \in C26_NightlyInstalls : log[i].tc.spec.date = args.start.date
        /\ first_success \in {None, Some(args.start.date)}
        /\ pc = "walk" => C26_NightlyInstalls = {}

C26_IteratorAtRest ==
    (C26_Pinned /\ dl_spec = "nightly") =>
        /\ emitted = <<>>
        /\ nightly_iter = NightlyFinderIter_new(args.start.date)

C26_StartPinnedAsClaimed ==
    /\ C26_NotOlder
    /\ C26_OneProbe
    /\ C26_IteratorAtRest

\* The start nightly was a baseline and the re-confirmation installed the
\* end of the range, a defaulted end older than the start.
C26_Witness ==
    /\ C26_Pinned
    /\ args.end = None
    /\ first_success = Some(args.start.date)
    /\ \E i \in C26_NightlyInstalls : log[i].tc.spec.date < args.start.date
    /\ emitted = <<>>

----------------------------------------------------------------------------
(* C27: two probe results with the same exit status and different stderr   *)
(* get the same outcome in the modes RegressOnErrorStatus and              *)
(* RegressOnSuccessStatus; must_process_stderr is false for exactly the    *)
(* modes whose outcome never depends on stderr, and true for exactly the   *)
(* modes whose outcome depends on stderr for at least one exit status.     *)
C27_Stderrs == SeqsUpTo(StderrChunks, MaxStderr)

\* The outcome of the classified result, had its stderr been s.
C27_With(s) ==
    default_outcome_of_output(probe_output.mode, [probe_output EXCEPT !.stderr = s])

\* Some exit status under which two stderr contents are told apart.
C27_DependsOnStderr(mode) ==
    \E ok \in BOOLEAN : \E s \in C27_Stderrs :
        default_outcome_of_output(mode, [mode |-> mode, success |-> ok, stderr |-> s])
            # default_outcome_of_output(mode, [mode |-> mode, success |-> ok, stderr |-> <<>>])

C27_StderrIndependence ==
    test_outcome # "none" =>
        /\ probe_output.mode \in {"RegressOnErrorStatus", "RegressOnSuccessStatus"}
              => \A s \in C27_Stderrs : C27_With(s) = test_outcome
        /\ ~must_process_stderr(probe_output.mode)
              => \A s \in C27_Stderrs : C27_With(s) = test_outcome
        /\ must_process_stderr(probe_output.mode)
              <=> C27_DependsOnStderr(probe_output.mode)

\* A failed probe without the marker, classified in a mode where the
\* marker would have changed the outcome.
C27_Witness ==
    /\ test_outcome = "Baseline"
    /\ probe_output.mode = "RegressOnNonCleanError"
    /\ ~probe_output.success
    /\ probe_output.stderr # <<>>
    /\ ~saw_ice(probe_output.stderr)
    /\ C27_With(IceMarker) = "Regressed"
    /\ must_process_stderr(probe_output.mode)

----------------------------------------------------------------------------
(* C28: print_results installs the found toolchain again exactly when it   *)
(* is the last element of the searched sequence, and tests it again        *)
(* exactly when that install succeeds; the banner "Regression in" is then  *)
(* printed only if the probe answered Yes (a failed install is Unknown);   *)
(* when found is not the last element the banner is printed and nothing    *)
(* is installed, tested or removed.                                        *)
C28_Found == CurrentResult.searched[CurrentResult.found + 1]
C28_IsLast == CurrentResult.found + 1 = Len(CurrentResult.searched)

\* The calls and the lines that the step added.
C28_Calls == SubSeq(log', Len(log) + 1, Len(log'))
C28_Lines == SubSeq(report', Len(report) + 1, Len(report'))

C28_Did(op) == \E i \in 1..Len(C28_Calls) : C28_Calls[i].op = op
C28_Banner == \E i \in 1..Len(C28_Lines) : C28_Lines[i].what = "Regression in"

C28_Step ==
    pc = "print_results" =>
        /\ \A i \in 1..Len(C28_Calls) : C28_Calls[i].tc = C28_Found
        /\ C28_Did("install") <=> C28_IsLast
        /\ C28_Did("test") <=> (C28_IsLast /\ C28_Calls[1] = InstallEv(C28_Found, "ok"))
        /\ C28_Did("test") => C28_Calls[1].op = "install" /\ C28_Calls[2].op = "test"
        /\ C28_IsLast =>
              (C28_Banner <=> (C28_Did("test") /\ C28_Calls[2].res = "Regressed"))
        /\ ~C28_IsLast => (C28_Banner /\ log' = log)
        /\ C28_Banner =>
              \E i \in 1..Len(C28_Lines) :
                  C28_Lines[i] = [what |-> "Regression in", tc |-> C28_Found]

C28_ReprobeOfLast == [][C28_Step]_vars

\* As claimed: the found toolchain is tested again whenever it is the last
\* element.
C28_StepAsClaimed ==
    pc = "print_results" =>
        /\ C28_Did("install") <=> C28_IsLast
        /\ C28_Did("test") <=> C28_IsLast
        /\ C28_IsLast =>
              (C28_Banner => (C28_Did("test") /\ C28_Calls[2].res = "Regressed"))
        /\ ~C28_IsLast => (C28_Banner /\ log' = log)

C28_AsClaimed == [][C28_StepAsClaimed]_vars

\* The last nightly of the range was found; it could not be installed
\* again, so it was not tested and no banner was printed.
C28_Witness ==
    /\ pc = "descend"
    /\ nightly_result.kind = "some"
    /\ nightly_result.val.found + 1 = Len(nightly_result.val.searched)
    /\ Len(nightly_result.val.searched) > 1
    /\ Len(log) >= 2
    /\ log[Len(log) - 1] =
          InstallEv(nightly_result.val.searched[nightly_result.val.found + 1], "Failed")
    /\ log[Len(log)].op = "remove"
    /\ report[Len(report)].what = "regression not found"

=============================================================================
